---- MODULE Spec2Model ----
(***************************************************************************)
(* A model of the agent orchestration engine of SDG-MoneyMate-backend:     *)
(* the conversation history store (agents/services.py), the orchestration  *)
(* loops of the coordinator (ai_core/services.py) and of the chatbot       *)
(* (chat/services.py), the single-call agents (onboarding, budget), the    *)
(* inter-agent router (ai_core/tools.py) and the history cleaning script   *)
(* (clean_html_from_history.py).                                           *)
(*                                                                         *)
(* The program is sequential: a delegation is a nested Python call, so the *)
(* running sessions form a call stack.  The suspension points of a session *)
(* are the Gateway call and the execution of a tool; one action models the *)
(* code that runs from one suspension point to the next.                   *)
(***************************************************************************)
EXTENDS Integers, Sequences, FiniteSets, TLC

VARIABLES
    hist,     \* the ConversationHistory table: (agent, user) -> turns, oldest first
    stack,    \* the running sessions, outermost first; the last one executes
    sent,     \* the request of the latest Gateway call (agent, user, contents)
    last,     \* how the latest finished (or crashed) session ended
    gwCalls,  \* Gateway calls made since the running top-level session began
    ops,      \* Gateway answers and maintenance operations so far
    sessions, \* top-level sessions started so far
    registry, \* AGENT_FUNCTION_REGISTRY: agent id -> tool name -> entry
    returned, \* what the latest direct call of a store or registry function returned
    tied,     \* per pair, the rows whose timestamp equals that of the row before
    registering, \* the threads inside register_agent_function
    workers,  \* the request threads running a session concurrently
    agentRows, \* the agent table: agent name -> the stored definition
    budgets   \* the Budget table: user -> the rows, in creation order

vars == <<hist, stack, sent, last, gwCalls, ops, sessions,
          registry, returned, tied, registering, workers, agentRows, budgets>>

\* The tables of the database other than the history.
dbVars == <<agentRows, budgets>>

\* The variables only the concurrent executions change.
threadVars == <<registering, workers>>

----------------------------------------------------------------------------
(* Bounds of the model *)

MaxOps == 2           \* Gateway answers and maintenance operations per behaviour
MaxDepth == 2         \* nested sessions on the call stack
MaxNesting == 3       \* nested sessions when the chatbot is entered again
MaxAnswers == 6       \* Gateway answers of the coordinator's session with the budget agent

(* Program constants *)

max_iterations == 5

CHATBOT == "chatbot_agent"
COORDINATOR == "main_ai_coordinator"
BUDGET == "budget_agent"
ONBOARDING == "onboarding_agent"

Agents == {CHATBOT, COORDINATOR, BUDGET, ONBOARDING}
Users == {"u1", "u2"}
Pairs == Agents \X Users

----------------------------------------------------------------------------
(* Texts are sequences of characters; these are the inputs of the model.   *)

WS == {" "}

\* Messages a user may send: plain, with an HTML tag, with surrounding blanks.
PlainMessage == <<"h", "i">>
Messages == { PlainMessage, <<"<", "b", ">", "h", "i">> }

\* user_message = None (or ""), accepted by onboarding and budget generation
NoMessage == <<>>

\* Final texts the model may answer with.
ModelTexts == { <<"<", "p", ">", "o", "k">> }

\* The message argument the model passes to a delegation tool.
ToolMessage == <<"g", "o">>

\* get_user_financial_profile: the profile block begins and ends with white
\* space (a triple-quoted f-string); without a profile a one-line fallback.
UsersWithProfile == {"u1"}

RECURSIVE StripTags(_)
\* re.sub(r'<[^>]+>', '', text): leftmost matches, each from a "<" followed
\* by at least one character other than ">" up to the first ">" after it.
StripTags(s) ==
    IF s = <<>> THEN <<>>
    ELSE IF /\ Head(s) = "<"
            /\ Len(s) >= 3
            /\ s[2] # ">"
            /\ \E j \in 3..Len(s) : s[j] = ">"
         THEN LET j == CHOOSE k \in 3..Len(s) :
                          s[k] = ">" /\ \A i \in 3..(k - 1) : s[i] # ">"
              IN  StripTags(SubSeq(s, j + 1, Len(s)))
         ELSE <<Head(s)>> \o StripTags(Tail(s))

RECURSIVE LStrip(_)
LStrip(s) == IF s # <<>> /\ Head(s) \in WS THEN LStrip(Tail(s)) ELSE s

RECURSIVE RStrip(_)
RStrip(s) ==
    IF s # <<>> /\ s[Len(s)] \in WS THEN RStrip(SubSeq(s, 1, Len(s) - 1)) ELSE s

\* str.strip()
Strip(s) == RStrip(LStrip(s))

\* clean_html_tags (chat/services.py and clean_html_from_history.py, same body)
clean_html_tags(text) == Strip(StripTags(text))

get_user_financial_profile(user) ==
    IF user \in UsersWithProfile THEN <<" ", "P", " ">> ELSE <<"U">>

\* f"{profile_context}\n\nUSER MESSAGE: {message}" / "...TASK: {prompt}"
initial_msg(user, message) == get_user_financial_profile(user) \o <<":">> \o message

----------------------------------------------------------------------------
(* Turns *)

TextTurn(role, t) ==
    [role |-> role, kind |-> "text", name |-> "", arg |-> "", text |-> t, res |-> ""]

\* {"function_call": {"name": ..., "args": ...}}, role model
CallTurn(c) ==
    [role |-> "model", kind |-> "function_call", name |-> c.name,
     arg |-> c.agent_name, text |-> c.message, res |-> ""]

\* {"function_response": {"name": ..., "response": result}}, role user
ResponseTurn(c, result) ==
    [role |-> "user", kind |-> "function_response", name |-> c.name,
     arg |-> "", text |-> <<>>, res |-> result]

----------------------------------------------------------------------------
(* The history store, agents/services.py *)

get_agent_history(h, agent, user) == h[<<agent, user>>]

\* A store that files every row under the first user.
add_to_history_of_one_user(h, agent, user, turn) ==
    [h EXCEPT ![<<agent, "u1">>] = Append(@, turn)]

add_to_history(h, agent, user, turn) ==
    [h EXCEPT ![<<agent, user>>] = Append(@, turn)]

clear_agent_history(h, agent, user) ==
    [h EXCEPT ![<<agent, user>>] = <<>>]

\* The timestamp column.  Rows are kept in insertion order; `ties` holds the
\* positions whose row was created at the same timestamp as the row before
\* it, so the timestamp of row i is the number of clock advances before it.
Timestamp(ties, i) == Cardinality({j \in 2..i : j \notin ties})

\* .order_by('timestamp'): the rows by non-decreasing timestamp.  The query
\* names no second key, so rows with equal timestamps come in an order the
\* database chooses.
order_by_timestamp(rows, ties) ==
    LET n == Len(rows)
        sorted == { o \in [1..n -> 1..n] :
                      /\ \A i, j \in 1..n : i # j => o[i] # o[j]
                      /\ \A i, j \in 1..n :
                             i < j => Timestamp(ties, o[i]) <= Timestamp(ties, o[j]) }
    IN  { [i \in 1..n |-> rows[o[i]]] : o \in sorted }

----------------------------------------------------------------------------
(* The tool registry, agents/services.py *)

\* A dict of an agent's functions keeps its insertion order: a sequence of
\* entries func_name -> {'declaration': ..., 'function': ...}.
Entry(func_name, declaration, function) ==
    [name |-> func_name, declaration |-> declaration, function |-> function]

NoFunctions == <<>>
EmptyRegistry == [a \in {} |-> NoFunctions]

\* func_name in functions
HasFunction(functions, func_name) ==
    \E i \in DOMAIN functions : functions[i].name = func_name

\* A registration that replaces the entry of a name already registered.
register_overwriting(reg, agent_id, func_name, function_declaration, function) ==
    LET old == IF agent_id \in DOMAIN reg THEN reg[agent_id] ELSE NoFunctions
        kept == SelectSeq(old, LAMBDA e : e.name # func_name)
        new == Append(kept, Entry(func_name, function_declaration, function))
    IN  [a \in DOMAIN reg \cup {agent_id} |-> IF a = agent_id THEN new ELSE reg[a]]

\* A registration that is not scoped: it lands in the dict of every agent.
register_for_all(reg, agent_id, func_name, function_declaration, function) ==
    LET r1 == IF agent_id \notin DOMAIN reg
              THEN reg @@ (agent_id :> NoFunctions)
              ELSE reg
    IN  [a \in DOMAIN r1 |->
            IF HasFunction(r1[a], func_name) THEN r1[a]
            ELSE Append(r1[a], Entry(func_name, function_declaration, function))]

register_agent_function(reg, agent_id, func_name, function_declaration, function) ==
    LET r1 == IF agent_id \notin DOMAIN reg
              THEN reg @@ (agent_id :> NoFunctions)
              ELSE reg
    IN  IF ~HasFunction(r1[agent_id], func_name)
        THEN [r1 EXCEPT ![agent_id] =
                            Append(@, Entry(func_name, function_declaration, function))]
        ELSE r1

get_agent_functions(reg, agent_id) ==
    IF agent_id \in DOMAIN reg THEN reg[agent_id] ELSE NoFunctions

\* build_tools: None without functions, else the declarations in the order
\* of the dict.
build_tools(reg, agent) ==
    LET functions == get_agent_functions(reg, agent)
    IN  IF Len(functions) = 0
        THEN [tool |-> FALSE, function_declarations |-> <<>>]
        ELSE [tool |-> TRUE,
              function_declarations |->
                  [i \in DOMAIN functions |-> functions[i].declaration]]

\* A dispatch that looks the name up in the dicts of all agents.
execute_function_of_any_agent(reg, agent, func_name) ==
    LET found == { e \in UNION { {reg[a][i] : i \in DOMAIN reg[a]} : a \in DOMAIN reg } :
                     e.name = func_name }
    IN  IF found # {}
        THEN [raised |-> FALSE, invoked |-> (CHOOSE e \in found : TRUE).function,
              error |-> <<>>]
        ELSE [raised |-> TRUE, invoked |-> "", error |-> <<func_name, agent>>]

\* execute_function up to the call of the implementation: the function it
\* invokes, or the ValueError naming the function and the agent.
execute_function(reg, agent, func_name) ==
    LET functions == get_agent_functions(reg, agent)
    IN  IF HasFunction(functions, func_name)
        THEN [raised |-> FALSE,
              invoked |-> (CHOOSE e \in {functions[i] : i \in DOMAIN functions} :
                               e.name = func_name).function,
              error |-> <<>>]
        ELSE [raised |-> TRUE, invoked |-> "", error |-> <<func_name, agent>>]

\* A clear that empties the whole registry.
clear_all_functions(reg, agent_id) ==
    IF agent_id \in DOMAIN reg THEN EmptyRegistry ELSE reg

clear_agent_functions(reg, agent_id) ==
    [a \in DOMAIN reg \ {agent_id} |-> reg[a]]

\* The tools each get_or_create_*_agent registers, in its order; every one
\* is registered with its own declaration and implementation, named here
\* by the tool.  The budget agent registers none.
ToolsOf(agent) ==
    CASE agent = COORDINATOR -> <<"call_budget_agent", "send_message_to_agent">>
      [] agent = CHATBOT -> <<"edit_user_profile", "call_main_coordinator",
                              "call_expense_manager", "call_report_agent",
                              "call_advisor">>
      [] agent = ONBOARDING -> <<"ask_question", "finish_onboarding_and_save_info">>
      [] OTHER -> <<>>

RECURSIVE RegisterAll(_, _, _)
RegisterAll(reg, agent, names) ==
    IF names = <<>> THEN reg
    ELSE RegisterAll(register_agent_function(reg, agent, Head(names),
                                             Head(names), Head(names)),
                     agent, Tail(names))

\* the registrations of get_or_create_<agent>_agent
get_or_create_agent(reg, agent) == RegisterAll(reg, agent, ToolsOf(agent))

----------------------------------------------------------------------------
(* The agent table *)

ADVISOR == "advisor_agent"
AgentNames == Agents \cup {ADVISOR}

\* A stored definition, and the absence of one.
Row(gemini_model, thinking_budget, system_instruction) ==
    [present |-> TRUE, gemini_model |-> gemini_model,
     thinking_budget |-> thinking_budget, system_instruction |-> system_instruction]
NoRow ==
    [present |-> FALSE, gemini_model |-> "", thinking_budget |-> 0,
     system_instruction |-> ""]

\* defaults={...} of each get_or_create_<agent>_agent: the canonical values
defaults(agent) ==
    CASE agent = COORDINATOR ->
            Row("gemini-2.5-flash-lite", 0, "COORDINATOR_SYSTEM_INSTRUCTION")
      [] agent = CHATBOT ->
            Row("gemini-2.5-flash-lite", 0, "CHATBOT_SYSTEM_INSTRUCTION")
      [] agent = BUDGET ->
            Row("gemini-2.5-pro", 1, "BUDGET_SYSTEM_INSTRUCTION")
      [] agent = ONBOARDING ->
            Row("gemini-2.0-flash", 0, "ONBOARDING_SYSTEM_INSTRUCTION")
      [] agent = ADVISOR ->
            Row("gemini-2.5-flash", 0, "ADVISOR_SYSTEM_INSTRUCTION")

\* The fields the "if not created and (...)" test of each agent compares
\* with the canonical values and rewrites before agent.save().
updated_fields(agent) ==
    CASE agent = COORDINATOR -> {"gemini_model", "thinking_budget"}
      [] agent = CHATBOT -> {"gemini_model", "thinking_budget", "system_instruction"}
      [] agent = BUDGET -> {"gemini_model", "thinking_budget"}
      [] agent = ONBOARDING -> {}
      [] agent = ADVISOR -> {"gemini_model", "system_instruction"}

\* agentModel.objects.get_or_create(name=..., defaults={...})
get_or_create(rows, name) ==
    IF rows[name].present
    THEN [agent |-> rows[name], created |-> FALSE]
    ELSE [agent |-> defaults(name), created |-> TRUE]

\* The database part of get_or_create_<agent>_agent: the table after the
\* call, whether the row was created and whether agent.save() ran.
get_or_create_definition(rows, name) ==
    LET g == get_or_create(rows, name)
        differs == \E fld \in updated_fields(name) : g.agent[fld] # defaults(name)[fld]
        fixed == [fld \in DOMAIN g.agent |->
                     IF fld \in updated_fields(name) THEN defaults(name)[fld]
                     ELSE g.agent[fld]]
        saved == ~g.created /\ differs
    IN  [rows |-> [rows EXCEPT ![name] = IF saved THEN fixed ELSE g.agent],
         created |-> g.created, saved |-> saved]

\* build_config with the thinking configuration attached from budget 0 on.
build_config_thinking_from_zero(reg, rows, agent) ==
    LET tools == build_tools(reg, agent)
    IN  [system_instruction |-> rows[agent].system_instruction,
         thinking_config |-> IF rows[agent].thinking_budget >= 0
                             THEN <<rows[agent].thinking_budget>> ELSE <<>>,
         tools |-> IF tools.tool THEN <<tools>> ELSE <<>>,
         tool_config |-> IF tools.tool THEN <<"AUTO">> ELSE <<>>]

\* build_config(agent): the optional fields are sequences of no or one value.
build_config(reg, rows, agent) ==
    LET tools == build_tools(reg, agent)
    IN  [system_instruction |-> rows[agent].system_instruction,
         thinking_config |-> IF rows[agent].thinking_budget > 0
                             THEN <<rows[agent].thinking_budget>> ELSE <<>>,
         tools |-> IF tools.tool THEN <<tools>> ELSE <<>>,
         tool_config |-> IF tools.tool THEN <<"AUTO">> ELSE <<>>]

----------------------------------------------------------------------------
(* Sessions *)

\* A session is one activation of an agent entry point: the agent, the user
\* and the message it was called with, the local variable `history` (mem),
\* the loop counter, and the tool calls of the current response still to be
\* handled.  emitted/mark remember the current response and the length of
\* the persisted history when it arrived, base that length when the session
\* began, shape the kind and the number of tool calls of every response,
\* answer the text of the latest response, tool_user the user identity its
\* latest tool was called with.
Frame(agent, user, message, mem, base) ==
    [agent |-> agent, user |-> user, message |-> message, mem |-> mem,
     iteration |-> 0, pc |-> "gateway", pending |-> <<>>, emitted |-> <<>>,
     mark |-> base, base |-> base, shape |-> <<>>, answer |-> <<>>,
     agents_called |-> <<>>, tool_user |-> ""]

\* process_coordinator_message up to the loop: load, persist and append the
\* user message.
EnterCoordinator(h, user, message) ==
    LET history == get_agent_history(h, COORDINATOR, user)
        turn == TextTurn("user", message)
    IN  [hist |-> add_to_history(h, COORDINATOR, user, turn),
         frame |-> Frame(COORDINATOR, user, message, Append(history, turn), Len(history))]

\* process_chatbot_message up to the loop: the first message of a pair is
\* prefixed with the user's profile.
EnterChatbot(h, user, message) ==
    LET history == get_agent_history(h, CHATBOT, user)
        turn == IF history = <<>>
                THEN TextTurn("user", initial_msg(user, message))
                ELSE TextTurn("user", message)
    IN  [hist |-> add_to_history(h, CHATBOT, user, turn),
         frame |-> Frame(CHATBOT, user, message, Append(history, turn), Len(history))]

\* process_budget_generation and _execute_agent_task up to the Gateway call.
DefaultPrompt == <<"g", "e", "n">>

EnterBudget(h, user, message) ==
    LET history == get_agent_history(h, BUDGET, user)
        prompt == IF message # <<>> THEN message ELSE DefaultPrompt
        turn == IF history = <<>>
                THEN TextTurn("user", initial_msg(user, prompt))
                ELSE TextTurn("user", prompt)
    IN  [hist |-> add_to_history(h, BUDGET, user, turn),
         frame |-> Frame(BUDGET, user, message, Append(history, turn), Len(history))]

\* process_onboarding_turn up to the Gateway call: the message is optional,
\* and a synthetic "start" turn makes the history end with a user turn.
StartText == <<"s", "t">>

NeedsStartWhenEmpty(history) == history = <<>>

\* if not history or history[-1].role == "model"
NeedsStart(history) ==
    history = <<>> \/ history[Len(history)].role = "model"

EnterOnboarding(h, user, message) ==
    LET history == get_agent_history(h, ONBOARDING, user)
        h1 == IF message # <<>>
              THEN add_to_history(h, ONBOARDING, user, TextTurn("user", message))
              ELSE h
        m1 == IF message # <<>>
              THEN Append(history, TextTurn("user", message))
              ELSE history
        h2 == IF NeedsStart(m1)
              THEN add_to_history(h1, ONBOARDING, user, TextTurn("user", StartText))
              ELSE h1
        m2 == IF NeedsStart(m1)
              THEN Append(m1, TextTurn("user", StartText))
              ELSE m1
    IN  [hist |-> h2, frame |-> Frame(ONBOARDING, user, message, m2, Len(history))]

Enter(h, agent, user, message) ==
    CASE agent = COORDINATOR -> EnterCoordinator(h, user, message)
      [] agent = CHATBOT -> EnterChatbot(h, user, message)
      [] agent = BUDGET -> EnterBudget(h, user, message)
      [] agent = ONBOARDING -> EnterOnboarding(h, user, message)

----------------------------------------------------------------------------
(* Tool calls the model may emit, and where each one leads *)

\* A function call of the model: its name and its arguments agent_name,
\* message and, when the model supplies one, an argument named 'user'.
Call(name, agent_name) ==
    [name |-> name, agent_name |-> agent_name, message |-> ToolMessage, user |-> ""]
ForgedCall(name, agent_name, user) ==
    [name |-> name, agent_name |-> agent_name, message |-> ToolMessage, user |-> user]
NoCall == [name |-> "", agent_name |-> "", message |-> <<>>, user |-> ""]

\* What the coordinator's model may ask for: its two registered tools, with
\* router targets inside and outside agent_map.
CoordinatorCalls ==
    { Call("call_budget_agent", ""),
      Call("send_message_to_agent", "chatbot_agent"),
      Call("send_message_to_agent", "market_watcher"),
      Call("send_message_to_agent", "nobody") }

\* What the chatbot's model may ask for: a local tool, the delegation to the
\* coordinator, and a name the if/elif chain does not know.
ChatbotCalls ==
    { Call("edit_user_profile", ""),
      Call("call_main_coordinator", ""),
      Call("no_such_tool", "") }

\* What the onboarding model may ask for (its two registered tools).
OnboardingCalls ==
    { Call("ask_question", ""), Call("finish_onboarding_and_save_info", "") }

CallsOf(agent) ==
    CASE agent = COORDINATOR -> CoordinatorCalls
      [] agent = CHATBOT -> ChatbotCalls
      [] agent = ONBOARDING -> OnboardingCalls
      [] OTHER -> {}

\* The names registered for the coordinator by get_or_create_coordinator_agent.
CoordinatorRegistered == {"call_budget_agent", "send_message_to_agent"}

\* agent_map of send_message_to_agent: the targets that run another agent's
\* loop, and the two stubs that return an error dict.
AgentMapSessions == [budget_agent |-> BUDGET, chatbot_agent |-> CHATBOT]
AgentMapStubs == {"market_watcher", "receipt_parser"}

\* The agent whose entry point a tool call runs, or "" when it runs none.
DelegateOf(agent, c) ==
    CASE agent = COORDINATOR /\ c.name = "call_budget_agent" -> BUDGET
      [] agent = COORDINATOR /\ c.name = "send_message_to_agent"
            /\ c.agent_name \in DOMAIN AgentMapSessions -> AgentMapSessions[c.agent_name]
      [] agent = CHATBOT /\ c.name = "call_main_coordinator" /\ c.user = "" -> COORDINATOR
      [] OTHER -> ""

\* The names of the chatbot's if/elif chain; each is called as
\* tool(user, **func_args).
ChatbotTools ==
    {"edit_user_profile", "call_main_coordinator", "call_expense_manager",
     "call_report_agent", "call_advisor"}

\* A tool that takes the user identity from the arguments of the model when
\* they hold one.
ToolUserFromArgs(f, c) == IF c.user # "" THEN c.user ELSE f.user

\* The user identity a tool is called with: the coordinator overwrites
\* func_args['user'] with the session's user, the chatbot passes the
\* session's user as the first positional argument.
ToolUser(f, c) == f.user

\* What a tool call that runs no agent can do: return a success or an error
\* dict, or raise.  execute_function raises ValueError for an unregistered
\* name, send_message_to_agent for a target outside agent_map; the chatbot's
\* if/elif chain answers an unknown name with an error dict, and its call
\* tool(user, **func_args) raises TypeError when the arguments hold 'user'.
LocalOutcomes(agent, c) ==
    CASE agent = COORDINATOR /\ c.name \notin CoordinatorRegistered -> {"raise"}
      [] agent = CHATBOT /\ c.name \in ChatbotTools /\ c.user # "" -> {"raise"}
      [] agent = COORDINATOR /\ c.name = "send_message_to_agent"
            /\ c.agent_name \in AgentMapStubs -> {"error"}
      [] agent = COORDINATOR /\ c.name = "send_message_to_agent" -> {"raise"}
      [] agent = CHATBOT /\ c.name = "edit_user_profile" -> {"success", "error", "raise"}
      [] agent = CHATBOT -> {"error"}
      [] OTHER -> {"success", "raise"}

----------------------------------------------------------------------------
(* Returning from a tool and from a session *)

Top(stk) == stk[Len(stk)]
Pop(stk) == SubSeq(stk, 1, Len(stk) - 1)
SetTop(stk, f) == [stk EXCEPT ![Len(stk)] = f]

\* What is remembered of a session that ended: the type and the message of
\* the dict it returned ("exception" when it raised instead), why it ended,
\* the last answer of the Gateway, the agent
\* whose code ended it (origin), its counters, the tool call that raised
\* (failed) and the turns its pair gained from its start to its end.
SessionRecord(f, h, type, message, how, depth, origin) ==
    [type |-> type, message |-> message, how |-> how, agent |-> f.agent,
     user |-> f.user, origin |-> origin,
     iteration |-> f.iteration, shape |-> f.shape, answer |-> f.answer,
     agents_called |-> f.agents_called, depth |-> depth, failed |-> NoCall,
     added |-> SubSeq(h[<<f.agent, f.user>>], f.base + 1, Len(h[<<f.agent, f.user>>]))]

NoSession ==
    [type |-> "none", message |-> <<>>, how |-> "none", agent |-> "",
     user |-> "", origin |-> "",
     iteration |-> 0, shape |-> <<>>, answer |-> <<>>, agents_called |-> <<>>,
     depth |-> 0, failed |-> NoCall,
     added |-> <<>>]

\* An exception propagates through every caller: no entry point and no tool
\* wrapper on the path catches it, so the top-level session ends with it.
\* `how` tells what raised: a tool, the Gateway call, or the code reading a
\* response without candidates; `failed` is the tool call that raised.
Raise(h, stk, how) ==
    [hist |-> h, stack |-> <<>>,
     last |-> [SessionRecord(stk[1], h, "exception", <<>>, how, 1, Top(stk).agent)
                  EXCEPT !.failed = IF how = "tool" THEN Head(Top(stk).pending)
                                    ELSE NoCall]]

\* The type field of the error dict returned after the loop.
ExceededType(agent) == "error"

RECURSIVE AfterTool(_, _, _, _)
RECURSIVE Return(_, _, _, _, _, _)

\* The code after the tool call of the running session returned `result`:
\* the coordinator persists the request and the result, the chatbot persists
\* the request (a second time) and the result; both append the two turns to
\* the local history; then the next tool call of the response, the next
\* iteration, or the return after the loop.
AfterTool(h, stk, lst, result) ==
    LET f == Top(stk)
        c == Head(f.pending)
        h1 == add_to_history(h, f.agent, f.user, CallTurn(c))
        h2 == add_to_history(h1, f.agent, f.user, ResponseTurn(c, result))
        f1 == [f EXCEPT !.mem = @ \o <<CallTurn(c), ResponseTurn(c, result)>>,
                        !.pending = Tail(@)]
    IN  IF f1.pending # <<>>
        THEN [hist |-> h2, stack |-> SetTop(stk, f1), last |-> lst]
        ELSE IF f1.iteration < max_iterations
        THEN [hist |-> h2, stack |-> SetTop(stk, [f1 EXCEPT !.pc = "gateway"]),
              last |-> lst]
        ELSE Return(h2, SetTop(stk, f1), lst, ExceededType(f.agent), <<>>, "exceeded")

\* The running session returns a dict of the given type and message to its
\* caller: the top-level caller, or the tool call of the session below it on
\* the stack.
Return(h, stk, lst, type, message, how) ==
    LET rec == SessionRecord(Top(stk), h, type, message, how, Len(stk), Top(stk).agent)
    IN  IF Len(stk) = 1
        THEN [hist |-> h, stack |-> <<>>, last |-> rec]
        ELSE AfterTool(h, Pop(stk), rec, type)

----------------------------------------------------------------------------
(* The Inference Gateway: what generate_content may answer *)

TextResponse(t) == [kind |-> "text", text |-> t, calls |-> <<>>]
CallsResponse(cs) == [kind |-> "calls", text |-> <<>>, calls |-> cs]
\* a response whose content has no parts, a response without candidates,
\* and a call that raises (network, authentication, quota)
NoParts == [kind |-> "noparts", text |-> <<>>, calls |-> <<>>]
NoCandidates == [kind |-> "nocand", text |-> <<>>, calls |-> <<>>]
GatewayFailure == [kind |-> "fail", text |-> <<>>, calls |-> <<>>]

\* A tool of each agent that runs no other agent and does not raise.
PlainCall(agent) ==
    CASE agent = COORDINATOR -> Call("send_message_to_agent", "market_watcher")
      [] agent = CHATBOT -> Call("edit_user_profile", "")
      [] OTHER -> Call("ask_question", "")

\* One tool call in a response, or two of which one is the plain call.
CallLists(agent) ==
    { <<c>> : c \in CallsOf(agent) }
        \cup { <<c, PlainCall(agent)>> : c \in CallsOf(agent) }
        \cup { <<PlainCall(agent), c>> : c \in CallsOf(agent) }

Responses(agent) ==
    { TextResponse(t) : t \in ModelTexts }
        \cup { CallsResponse(cs) : cs \in CallLists(agent) }
        \cup { NoParts, NoCandidates, GatewayFailure }

\* Tool calls whose arguments hold a 'user' naming some user.
ForgedCalls(agent) ==
    CASE agent = COORDINATOR ->
            { ForgedCall(c[1], c[2], u) :
                c \in { <<"call_budget_agent", "">>,
                        <<"send_message_to_agent", "chatbot_agent">>,
                        <<"send_message_to_agent", "market_watcher">> },
                u \in Users }
      [] agent = CHATBOT ->
            { ForgedCall(n, "", u) :
                n \in {"edit_user_profile", "call_main_coordinator"}, u \in Users }
      [] OTHER -> {}

ForgedResponses(agent) == { CallsResponse(<<c>>) : c \in ForgedCalls(agent) }

Request(f) == [agent |-> f.agent, user |-> f.user, contents |-> f.mem]
NoRequest == [agent |-> "", user |-> "", contents |-> <<>>]

\* "I've processed your request.", the message returned for an empty text
ProcessedText == <<"o", "k">>

\* One iteration of the coordinator's loop from the Gateway call to the
\* first tool call, or to the return.
CoordinatorResponded(h, stk, lst, r) ==
    LET f0 == Top(stk)
        f == [f0 EXCEPT !.iteration = @ + 1,
                        !.shape = Append(@, [kind |-> r.kind, n |-> Len(r.calls)]),
                        !.answer = r.text]
    IN  CASE r.kind = "fail" -> Raise(h, SetTop(stk, f), "gateway")
          [] r.kind = "nocand" -> Raise(h, SetTop(stk, f), "response")
          [] r.kind = "calls" ->
                [hist |-> h, last |-> lst,
                 stack |-> SetTop(stk, [f EXCEPT !.pc = "tools", !.pending = r.calls,
                                                 !.emitted = r.calls,
                                                 !.mark = Len(h[<<f.agent, f.user>>])])]
          [] OTHER ->
                Return(add_to_history(h, f.agent, f.user, TextTurn("model", r.text)),
                       SetTop(stk, f), lst, "response",
                       IF r.text # <<>> THEN r.text ELSE ProcessedText, "done")

\* The chatbot's final branch: the answer, cleaned of HTML tags, is persisted
\* as a model turn.
SaveFinalMessageSkipped(h, f, text) == h

SaveFinalMessage(h, f, text) ==
    add_to_history(h, f.agent, f.user, TextTurn("model", clean_html_tags(text)))

\* A test for an empty response that looks at the candidates only.
empty_response_without_candidates(r) == r.kind = "nocand"

\* not response.candidates or not ...content or not ...content.parts
empty_response(r) == r.kind \in {"nocand", "noparts"}

\* One iteration of the chatbot's loop from the Gateway call to the tool
\* call, or to the return.  Only the first function call of a response is
\* taken; its request is persisted and appended before the tool runs.
ChatbotResponded(h, stk, lst, r) ==
    LET f0 == Top(stk)
        f == [f0 EXCEPT !.iteration = @ + 1,
                        !.shape = Append(@, [kind |-> r.kind, n |-> Len(r.calls)]),
                        !.answer = r.text]
    IN  CASE r.kind = "fail" -> Raise(h, SetTop(stk, f), "gateway")
          [] empty_response(r) ->
                Return(h, SetTop(stk, f), lst, "error", <<>>, "empty")
          [] r.kind = "calls" ->
                LET c == Head(r.calls)
                IN  [hist |-> add_to_history(h, f.agent, f.user, CallTurn(c)),
                     last |-> lst,
                     stack |-> SetTop(stk, [f EXCEPT !.pc = "tools", !.pending = <<c>>,
                                                     !.emitted = r.calls,
                                                     !.mark = Len(h[<<f.agent, f.user>>]),
                                                     !.mem = Append(@, CallTurn(c))])]
          [] OTHER ->
                Return(SaveFinalMessage(h, f, r.text), SetTop(stk, f), lst,
                       "success", clean_html_tags(r.text), "done")

\* A BudgetOperation of the parsed answer; the amount is written as a
\* string, "none" for None.
BudgetOperation(operation, title, budget) ==
    [operation |-> operation, title |-> title, budget |-> budget]

\* The answer of the budget agent: its JSON text, parsed into operations.
BudgetResponse(t, operations) ==
    [kind |-> "text", text |-> t, calls |-> <<>>, operations |-> operations]

\* generated_content.operations, empty when the answer did not parse
operations_of(r) == IF "operations" \in DOMAIN r THEN r.operations ELSE <<>>

\* The rows of one user with a title.
WithTitle(rows, title) == SelectSeq(rows, LAMBDA b : b.title = title)

\* One pass of the loop over the operations.  Budget.objects.create adds a
\* row, or raises IntegrityError when the table (budget/models.py, not
\* among the sources) has a uniqueness constraint on (user, title) and the
\* title exists; Budget.objects.get raises DoesNotExist, which is caught,
\* for no row and MultipleObjectsReturned, which is not, for several rows;
\* filter(...).delete() removes every row of the title.
apply_operation(rows, operation, unique) ==
    CASE operation.operation = "add" ->
            IF unique /\ WithTitle(rows, operation.title) # <<>>
            THEN [rows |-> rows, raised |-> TRUE]
            ELSE [rows |-> Append(rows, [title |-> operation.title,
                                         budget |-> operation.budget]),
                  raised |-> FALSE]
      [] operation.operation = "edit" ->
            IF Len(WithTitle(rows, operation.title)) > 1
            THEN [rows |-> rows, raised |-> TRUE]
            ELSE [rows |-> [i \in DOMAIN rows |->
                              IF rows[i].title = operation.title
                                 /\ operation.budget # "none"
                              THEN [rows[i] EXCEPT !.budget = operation.budget]
                              ELSE rows[i]],
                  raised |-> FALSE]
      [] operation.operation = "delete" ->
            [rows |-> SelectSeq(rows, LAMBDA b : b.title # operation.title),
             raised |-> FALSE]

\* for operation in generated_content.operations: ..., up to the first
\* operation that raises; the rows written before it stay written.
RECURSIVE apply_operations(_, _, _)
apply_operations(rows, operations, unique) ==
    IF operations = <<>> THEN [rows |-> rows, raised |-> FALSE]
    ELSE LET one == apply_operation(rows, Head(operations), unique)
         IN  IF one.raised THEN one
             ELSE apply_operations(one.rows, Tail(operations), unique)

\* No operation was applied.
NotApplied(rows) == [rows |-> rows, raised |-> FALSE]

\* The operation lists of the model: up to three operations on two titles.
Operations ==
    { BudgetOperation("add", "Rent", "1000"), BudgetOperation("edit", "Rent", "1500"),
      BudgetOperation("edit", "Rent", "none"),
      BudgetOperation("delete", "Rent", "none"), BudgetOperation("edit", "Food", "1500") }

OperationLists == UNION { [1..n -> Operations] : n \in 0..3 }

BudgetResponses(agent) ==
    IF agent = BUDGET
    THEN { BudgetResponse(t, operations) : t \in ModelTexts, operations \in OperationLists }
    ELSE {}

\* _execute_agent_task from the Gateway call on: the answer is persisted as
\* a model turn, the operations are applied (`applied` is their outcome)
\* and a success dict with the message of the parsed answer is returned.
BudgetResponded(h, stk, lst, r, applied) ==
    LET f0 == Top(stk)
        f == [f0 EXCEPT !.iteration = @ + 1,
                        !.shape = Append(@, [kind |-> r.kind, n |-> Len(r.calls)]),
                        !.answer = r.text]
        h1 == add_to_history(h, f.agent, f.user, TextTurn("model", r.text))
    IN  IF r.kind = "fail" THEN Raise(h, SetTop(stk, f), "gateway")
        ELSE IF applied.raised THEN Raise(h1, SetTop(stk, f), "database")
        ELSE Return(h1, SetTop(stk, f), lst, "success", r.text, "done")

\* process_onboarding_turn from the Gateway call to the tool call: the text
\* of the answer ("" when there is none) is persisted first.
OnboardingResponded(h, stk, lst, r) ==
    LET f0 == Top(stk)
        f == [f0 EXCEPT !.iteration = @ + 1,
                        !.shape = Append(@, [kind |-> r.kind, n |-> Len(r.calls)]),
                        !.answer = r.text]
        h1 == add_to_history(h, f.agent, f.user, TextTurn("model", r.text))
    IN  CASE r.kind = "fail" -> Raise(h, SetTop(stk, f), "gateway")
          [] r.kind = "nocand" -> Raise(h1, SetTop(stk, f), "response")
          [] r.kind = "calls" ->
                [hist |-> h1, last |-> lst,
                 stack |-> SetTop(stk, [f EXCEPT !.pc = "tools", !.pending = r.calls,
                                                 !.emitted = r.calls,
                                                 !.mark = Len(h[<<f.agent, f.user>>])])]
          [] OTHER -> Return(h1, SetTop(stk, f), lst, "error", <<>>, "nocall")

Responded(h, stk, lst, r, applied) ==
    CASE Top(stk).agent = COORDINATOR -> CoordinatorResponded(h, stk, lst, r)
      [] Top(stk).agent = CHATBOT -> ChatbotResponded(h, stk, lst, r)
      [] Top(stk).agent = BUDGET -> BudgetResponded(h, stk, lst, r, applied)
      [] Top(stk).agent = ONBOARDING -> OnboardingResponded(h, stk, lst, r)

----------------------------------------------------------------------------
(* Actions *)

\* Nothing was returned yet.
NoReturn == [op |-> "none"]

\* The threads of the concurrent executions, and a thread that runs nothing.
Threads == {1, 2}
Idle == [pc |-> "idle", agent |-> "", name |-> "", declaration |-> "", function |-> ""]
NoWorker == [pc |-> "idle", frame |-> Frame("", "", <<>>, <<>>, 0), queue |-> <<>>]

\* Everything but the agent table.
InitRest ==
    /\ hist = [p \in Pairs |-> <<>>]
    /\ stack = <<>>
    /\ sent = NoRequest
    /\ last = NoSession
    /\ gwCalls = 0
    /\ ops = 0
    /\ sessions = 0
    /\ registry = EmptyRegistry
    /\ returned = NoReturn
    /\ tied = [p \in Pairs |-> {}]
    /\ registering = [t \in Threads |-> Idle]
    /\ workers = [w \in Threads |-> NoWorker]
    /\ budgets = [u \in Users |-> <<>>]

Init ==
    /\ InitRest
    /\ agentRows = [a \in AgentNames |-> NoRow]

\* The messages an entry point accepts: the message is optional for the
\* onboarding turn and for budget generation.
MessagesOf(agent) ==
    CASE agent = CHATBOT -> Messages
      [] agent = COORDINATOR -> {PlainMessage}
      [] agent = ONBOARDING -> {NoMessage, PlainMessage}
      [] agent = BUDGET -> {NoMessage}

\* A caller outside the engine (a view) runs an agent entry point.
StartSession(agent, user, message) ==
    /\ stack = <<>>
    /\ LET e == Enter(hist, agent, user, message)
       IN  /\ hist' = e.hist
           /\ stack' = <<e.frame>>
    /\ gwCalls' = 0
    /\ sessions' = sessions + 1
    /\ registry' = get_or_create_agent(registry, agent)
    /\ agentRows' = get_or_create_definition(agentRows, agent).rows
    /\ UNCHANGED <<sent, last, ops, returned, tied, threadVars, budgets>>

\* client.models.generate_content(contents=history) of the running session
\* answers r, and the session runs to its next suspension point.
GatewayRespond(r) ==
    /\ stack # <<>>
    /\ Top(stack).pc = "gateway"
    /\ r \in Responses(Top(stack).agent) \cup ForgedResponses(Top(stack).agent)
                \cup BudgetResponses(Top(stack).agent)
    /\ sent' = Request(Top(stack))
    /\ gwCalls' = gwCalls + 1
    /\ ops' = ops + 1
    /\ \E unique \in BOOLEAN :
          LET f == Top(stack)
              applied == IF f.agent = BUDGET /\ r.kind # "fail"
                         THEN apply_operations(budgets[f.user], operations_of(r), unique)
                         ELSE NotApplied(budgets[f.user])
              s == Responded(hist, stack, last, r, applied)
          IN  /\ hist' = s.hist
              /\ stack' = s.stack
              /\ last' = s.last
              /\ budgets' = [budgets EXCEPT ![f.user] = applied.rows]
    /\ UNCHANGED <<sessions, registry, returned, tied, threadVars, agentRows>>

\* A bookkeeping that notes the called agent before and after the tool runs.
TrackedTwice(f, c) ==
    IF f.agent # COORDINATOR THEN f
    ELSE IF c.name = "call_budget_agent"
    THEN [f EXCEPT !.agents_called = @ \o <<"budget_agent", "budget_agent">>]
    ELSE IF c.name = "send_message_to_agent"
    THEN [f EXCEPT !.agents_called = @ \o <<c.agent_name, c.agent_name>>]
    ELSE f

\* The agents_called bookkeeping of the coordinator, done before the tool runs.
Tracked(f, c) ==
    IF f.agent # COORDINATOR THEN f
    ELSE IF c.name = "call_budget_agent"
    THEN [f EXCEPT !.agents_called = Append(@, "budget_agent")]
    ELSE IF c.name = "send_message_to_agent"
    THEN [f EXCEPT !.agents_called = Append(@, c.agent_name)]
    ELSE f

\* The next tool call of the response runs no other agent: it returns a
\* dict or raises.
ExecuteLocal(outcome) ==
    /\ stack # <<>>
    /\ Top(stack).pc = "tools"
    /\ LET f == Top(stack)
           c == Head(f.pending)
           stk == SetTop(stack, [Tracked(f, c) EXCEPT !.tool_user = ToolUser(f, c)])
           s == IF outcome = "raise" THEN Raise(hist, stk, "tool")
                ELSE IF f.agent = ONBOARDING
                THEN Return(hist, stk, last,
                            IF c.name = "ask_question" THEN "question" ELSE "finsh",
                            <<>>, "done")
                ELSE AfterTool(hist, stk, last, outcome)
       IN  /\ DelegateOf(f.agent, c) = ""
           /\ outcome \in LocalOutcomes(f.agent, c)
           /\ hist' = s.hist
           /\ stack' = s.stack
           /\ last' = s.last
    /\ UNCHANGED <<sent, gwCalls, ops, sessions, registry, returned, tied, threadVars, dbVars>>

\* The next tool call of the response runs another agent's entry point for
\* the same user: a nested session begins.
Delegate ==
    /\ stack # <<>>
    /\ Top(stack).pc = "tools"
    /\ LET f == Top(stack)
           c == Head(f.pending)
           e == Enter(hist, DelegateOf(f.agent, c), ToolUser(f, c), c.message)
       IN  /\ DelegateOf(f.agent, c) # ""
           /\ hist' = e.hist
           /\ stack' = Append(SetTop(stack, [Tracked(f, c) EXCEPT
                                                !.tool_user = ToolUser(f, c)]),
                              e.frame)
           /\ registry' = get_or_create_agent(registry, DelegateOf(f.agent, c))
           /\ agentRows' = get_or_create_definition(agentRows, DelegateOf(f.agent, c)).rows
    /\ UNCHANGED <<sent, last, gwCalls, ops, sessions, returned, tied, threadVars,
                   budgets>>

\* clear_agent_history: the explicit reset of one pair.
ClearAgentHistory(agent, user) ==
    /\ stack = <<>>
    /\ hist[<<agent, user>>] # <<>>
    /\ hist' = clear_agent_history(hist, agent, user)
    /\ tied' = [tied EXCEPT ![<<agent, user>>] = {}]
    /\ ops' = ops + 1
    /\ UNCHANGED <<stack, sent, last, gwCalls, sessions, registry, returned, threadVars,
                   dbVars>>

\* clean_conversation_history: every text part of every stored turn of the
\* chatbot agent is replaced by its cleaned text (saved when it differs).
CleanedTurn(t) ==
    IF t.kind = "text" /\ t.text # <<>> THEN [t EXCEPT !.text = clean_html_tags(@)] ELSE t

clean_conversation_history(h) ==
    [p \in Pairs |->
        IF p[1] = CHATBOT THEN [i \in 1..Len(h[p]) |-> CleanedTurn(h[p][i])] ELSE h[p]]

CleanConversationHistory ==
    /\ stack = <<>>
    /\ hist' = clean_conversation_history(hist)
    /\ hist' # hist
    /\ ops' = ops + 1
    /\ UNCHANGED <<stack, sent, last, gwCalls, sessions, registry, returned, tied,
                   threadVars, dbVars>>

Next ==
    \/ ops < MaxOps
         /\ \E a \in Agents, u \in Users : \E m \in MessagesOf(a) : StartSession(a, u, m)
    \/ stack # <<>> /\ ops < MaxOps
         /\ \E r \in Responses(Top(stack).agent) : GatewayRespond(r)
    \/ \E o \in {"success", "error", "raise"} : ExecuteLocal(o)
    \/ Delegate
    \/ ops < MaxOps /\ \E a \in Agents, u \in Users : ClearAgentHistory(a, u)
    \/ ops < MaxOps /\ CleanConversationHistory

Spec == Init /\ [][Next]_vars

----------------------------------------------------------------------------
(* The history store called directly: rows are added, read and cleared for *)
(* the pairs of one agent.  A row may be created within the same clock     *)
(* tick as the row before it.                                              *)

MaxRows == 2          \* rows per pair (SpecStore)

StoreAgent == CHATBOT
StoreTurns == { TextTurn("user", PlainMessage), TextTurn("model", PlainMessage) }

\* add_to_history(agent, user, part, role)
AddToHistory(agent, user, turn, tie) ==
    /\ stack = <<>>
    /\ Len(hist[<<agent, user>>]) < MaxRows
    /\ tie => hist[<<agent, user>>] # <<>>
    /\ hist' = add_to_history(hist, agent, user, turn)
    /\ tied' = IF tie
               THEN [tied EXCEPT ![<<agent, user>>] = @ \cup {Len(hist[<<agent, user>>]) + 1}]
               ELSE tied
    /\ UNCHANGED <<stack, sent, last, gwCalls, ops, sessions, registry, returned,
                   threadVars, dbVars>>

\* get_agent_history(agent, user): `stored` remembers the rows of the pair
\* in the order they were added.
GetAgentHistory(agent, user) ==
    /\ stack = <<>>
    /\ \E value \in order_by_timestamp(hist[<<agent, user>>], tied[<<agent, user>>]) :
           returned' = [op |-> "get_agent_history", agent |-> agent, user |-> user,
                        value |-> value, stored |-> hist[<<agent, user>>]]
    /\ UNCHANGED <<hist, stack, sent, last, gwCalls, ops, sessions, registry, tied,
                   threadVars, dbVars>>

NextStore ==
    \/ \E u \in Users, t \in StoreTurns, tie \in BOOLEAN : AddToHistory(StoreAgent, u, t, tie)
    \/ \E u \in Users : GetAgentHistory(StoreAgent, u)
    \/ ops < MaxOps /\ \E u \in Users : ClearAgentHistory(StoreAgent, u)

SpecStore == Init /\ [][NextStore]_vars

----------------------------------------------------------------------------
(* Full-length loops.  One top-level session of the chatbot or of the      *)
(* coordinator, with a Gateway that answers every call with the final text *)
(* or with a single tool call (a plain one or a delegation), and tools     *)
(* that return.  The loops run to their iteration cap; the depth of the    *)
(* delegation is bounded by MaxDepth.                                      *)

DelegCalls(agent) ==
    CASE agent = CHATBOT -> { Call("call_main_coordinator", ""), PlainCall(CHATBOT) }
      [] agent = COORDINATOR ->
            { Call("send_message_to_agent", "chatbot_agent"), PlainCall(COORDINATOR) }
      [] OTHER -> {}

DelegResponses(agent) ==
    { TextResponse(t) : t \in ModelTexts }
        \cup { CallsResponse(<<c>>) : c \in DelegCalls(agent) }

NextDeleg ==
    \/ sessions = 0
         /\ \E a \in {CHATBOT, COORDINATOR} : StartSession(a, "u1", PlainMessage)
    \/ stack # <<>>
         /\ \E r \in DelegResponses(Top(stack).agent) : GatewayRespond(r)
    \/ ExecuteLocal("error")
    \/ Len(stack) < MaxDepth /\ Delegate

SpecDeleg == Init /\ [][NextDeleg]_vars

----------------------------------------------------------------------------
(* The registry called directly, between loop runs: functions are          *)
(* registered for two agents under two names with two declarations and     *)
(* implementations, looked up, built into a manifest, dispatched and       *)
(* cleared, before and after one session of the chatbot, which may         *)
(* delegate to the coordinator.                                            *)

RegAgents == {COORDINATOR, CHATBOT}
RegNames == {"edit_user_profile", "get_rates"}
RegVersions == { <<"d1", "f1">>, <<"d2", "f2">> }

\* register_agent_function(agent_id, func_name, function_declaration, function);
\* `had` remembers whether the name was registered for the agent before.
RegisterAgentFunction(agent_id, func_name, function_declaration, function) ==
    /\ stack = <<>>
    /\ registry' = register_agent_function(registry, agent_id, func_name,
                                           function_declaration, function)
    /\ returned' = [op |-> "register_agent_function", agent |-> agent_id,
                    name |-> func_name, declaration |-> function_declaration,
                    function |-> function,
                    had |-> HasFunction(get_agent_functions(registry, agent_id), func_name)]
    /\ UNCHANGED <<hist, stack, sent, last, gwCalls, ops, sessions, tied, threadVars, dbVars>>

\* build_tools(agent)
BuildTools(agent) ==
    /\ stack = <<>>
    /\ returned' = [op |-> "build_tools", agent |-> agent,
                    value |-> build_tools(registry, agent)]
    /\ UNCHANGED <<hist, stack, sent, last, gwCalls, ops, sessions, registry, tied,
                   threadVars, dbVars>>

\* execute_function(agent, func_name, args)
ExecuteFunction(agent, func_name) ==
    /\ stack = <<>>
    /\ returned' = [op |-> "execute_function", agent |-> agent, name |-> func_name,
                    result |-> execute_function(registry, agent, func_name)]
    /\ UNCHANGED <<hist, stack, sent, last, gwCalls, ops, sessions, registry, tied,
                   threadVars, dbVars>>

\* clear_agent_functions(agent_id)
ClearAgentFunctions(agent_id) ==
    /\ stack = <<>>
    /\ registry' = clear_agent_functions(registry, agent_id)
    /\ returned' = [op |-> "clear_agent_functions", agent |-> agent_id]
    /\ UNCHANGED <<hist, stack, sent, last, gwCalls, ops, sessions, tied, threadVars, dbVars>>

NextRegistry ==
    \/ \E a \in RegAgents, n \in RegNames, v \in RegVersions :
           RegisterAgentFunction(a, n, v[1], v[2])
    \/ \E a \in RegAgents : BuildTools(a)
    \/ \E a \in RegAgents, n \in RegNames : ExecuteFunction(a, n)
    \/ \E a \in RegAgents : ClearAgentFunctions(a)
    \/ sessions = 0 /\ StartSession(CHATBOT, "u1", PlainMessage)
    \/ stack # <<>> /\ ops < MaxOps
         /\ \E r \in DelegResponses(Top(stack).agent) : GatewayRespond(r)
    \/ ExecuteLocal("error")
    \/ Len(stack) < MaxDepth /\ Delegate

SpecRegistry == Init /\ [][NextRegistry]_vars

----------------------------------------------------------------------------
(* Concurrent registrations.  Two request threads of one process run       *)
(* register_agent_function for the same agent; a thread switch may fall    *)
(* between any two statements, and no lock is held.                        *)

RaceAgent == COORDINATOR

\* functions[func_name] = entry: in place when the key exists, else at the end
StoreEntry(functions, entry) ==
    IF HasFunction(functions, entry.name)
    THEN [i \in DOMAIN functions |->
             IF functions[i].name = entry.name THEN entry ELSE functions[i]]
    ELSE Append(functions, entry)

\* A thread enters register_agent_function(agent_id, func_name, declaration, function).
RegisterBegin(t, func_name, version) ==
    /\ registering[t].pc \in {"idle", "done"}
    /\ registering' = [registering EXCEPT ![t] =
                           [pc |-> "check_agent", agent |-> RaceAgent, name |-> func_name,
                            declaration |-> version[1], function |-> version[2]]]
    /\ UNCHANGED <<hist, stack, sent, last, gwCalls, ops, sessions, registry, returned,
                   tied, workers, dbVars>>

\* if agent_id not in AGENT_FUNCTION_REGISTRY:
RegisterCheckAgent(t) ==
    /\ registering[t].pc = "check_agent"
    /\ registering' = [registering EXCEPT ![t].pc =
                           IF registering[t].agent \notin DOMAIN registry
                           THEN "make_agent" ELSE "check_name"]
    /\ UNCHANGED <<hist, stack, sent, last, gwCalls, ops, sessions, registry, returned,
                   tied, workers, dbVars>>

\* AGENT_FUNCTION_REGISTRY[agent_id] = {}
RegisterMakeAgent(t) ==
    /\ registering[t].pc = "make_agent"
    /\ registry' = [a \in DOMAIN registry \cup {registering[t].agent} |->
                       IF a = registering[t].agent THEN NoFunctions ELSE registry[a]]
    /\ registering' = [registering EXCEPT ![t].pc = "check_name"]
    /\ UNCHANGED <<hist, stack, sent, last, gwCalls, ops, sessions, returned, tied,
                   workers, dbVars>>

\* if func_name not in AGENT_FUNCTION_REGISTRY[agent_id]:
RegisterCheckName(t) ==
    /\ registering[t].pc = "check_name"
    /\ registering[t].agent \in DOMAIN registry
    /\ registering' = [registering EXCEPT ![t].pc =
                           IF HasFunction(registry[registering[t].agent], registering[t].name)
                           THEN "done" ELSE "insert"]
    /\ UNCHANGED <<hist, stack, sent, last, gwCalls, ops, sessions, registry, returned,
                   tied, workers, dbVars>>

\* AGENT_FUNCTION_REGISTRY[agent_id][func_name] = {...}
RegisterInsert(t) ==
    /\ registering[t].pc = "insert"
    /\ registering[t].agent \in DOMAIN registry
    /\ registry' = [registry EXCEPT ![registering[t].agent] =
                       StoreEntry(@, Entry(registering[t].name, registering[t].declaration,
                                           registering[t].function))]
    /\ registering' = [registering EXCEPT ![t].pc = "done"]
    /\ UNCHANGED <<hist, stack, sent, last, gwCalls, ops, sessions, returned, tied,
                   workers, dbVars>>

NextRace ==
    \/ \E t \in Threads, n \in RegNames, v \in RegVersions : RegisterBegin(t, n, v)
    \/ \E t \in Threads : RegisterCheckAgent(t)
    \/ \E t \in Threads : RegisterMakeAgent(t)
    \/ \E t \in Threads : RegisterCheckName(t)
    \/ \E t \in Threads : RegisterInsert(t)

SpecRace == Init /\ [][NextRace]_vars

----------------------------------------------------------------------------
(* Concurrent sessions.  Two request threads run process_coordinator_message *)
(* for the same user.  Each add_to_history is one insert; a thread switch  *)
(* may fall between any two of them.  `queue` holds the inserts of the     *)
(* code a thread is running that it has not made yet.                      *)

WorkerUser == "u1"

\* The turns h1 holds for the pair beyond those of h.
AddedTo(h, h1, agent, user) ==
    SubSeq(h1[<<agent, user>>], Len(h[<<agent, user>>]) + 1, Len(h1[<<agent, user>>]))

WorkerResponses ==
    { TextResponse(t) : t \in ModelTexts } \cup { CallsResponse(<<PlainCall(COORDINATOR)>>) }

\* The thread enters process_coordinator_message: it reads the history and
\* goes on to insert the user message.
WorkerStart(w, message) ==
    /\ workers[w].pc = "idle"
    /\ LET e == Enter(hist, COORDINATOR, WorkerUser, message)
       IN  workers' = [workers EXCEPT ![w] =
                          [pc |-> "running", frame |-> e.frame,
                           queue |-> AddedTo(hist, e.hist, COORDINATOR, WorkerUser)]]
    /\ registry' = get_or_create_agent(registry, COORDINATOR)
    /\ UNCHANGED <<hist, stack, sent, last, gwCalls, ops, sessions, returned, tied,
                   registering, dbVars>>

\* The thread makes its next insert.
WorkerAppend(w) ==
    /\ workers[w].queue # <<>>
    /\ hist' = add_to_history(hist, COORDINATOR, WorkerUser, Head(workers[w].queue))
    /\ workers' = [workers EXCEPT ![w].queue = Tail(@)]
    /\ UNCHANGED <<stack, sent, last, gwCalls, ops, sessions, registry, returned, tied,
                   registering, dbVars>>

\* The Gateway answers the thread's call.
WorkerGateway(w, r) ==
    /\ workers[w].pc = "running"
    /\ workers[w].queue = <<>>
    /\ workers[w].frame.pc = "gateway"
    /\ LET s == Responded(hist, <<workers[w].frame>>, last, r, NotApplied(<<>>))
       IN  workers' = [workers EXCEPT ![w] =
                          [pc |-> IF s.stack = <<>> THEN "done" ELSE "running",
                           frame |-> IF s.stack = <<>> THEN workers[w].frame ELSE s.stack[1],
                           queue |-> AddedTo(hist, s.hist, COORDINATOR, WorkerUser)]]
    /\ ops' = ops + 1
    /\ UNCHANGED <<hist, stack, sent, last, gwCalls, sessions, registry, returned, tied,
                   registering, dbVars>>

\* The tool the thread called returns, and the thread goes on to insert the
\* request and the result.
WorkerTool(w) ==
    /\ workers[w].pc = "running"
    /\ workers[w].queue = <<>>
    /\ workers[w].frame.pc = "tools"
    /\ LET f == workers[w].frame
           s == AfterTool(hist, <<Tracked(f, Head(f.pending))>>, last, "error")
       IN  workers' = [workers EXCEPT ![w] =
                          [pc |-> IF s.stack = <<>> THEN "done" ELSE "running",
                           frame |-> IF s.stack = <<>> THEN f ELSE s.stack[1],
                           queue |-> AddedTo(hist, s.hist, COORDINATOR, WorkerUser)]]
    /\ UNCHANGED <<hist, stack, sent, last, gwCalls, ops, sessions, registry, returned,
                   tied, registering, dbVars>>

NextWorkers ==
    \/ \E w \in Threads, m \in Messages : WorkerStart(w, m)
    \/ \E w \in Threads : WorkerAppend(w)
    \/ ops < MaxOps /\ \E w \in Threads, r \in WorkerResponses : WorkerGateway(w, r)
    \/ \E w \in Threads : WorkerTool(w)

SpecWorkers == Init /\ [][NextWorkers]_vars

----------------------------------------------------------------------------
(* Arguments naming a user.  Sessions of the chatbot and of the            *)
(* coordinator for either user, with a Gateway whose tool calls carry an   *)
(* argument 'user' that names either user.                                 *)

NextForged ==
    \/ ops < MaxOps
         /\ \E a \in {CHATBOT, COORDINATOR}, u \in Users : StartSession(a, u, PlainMessage)
    \/ stack # <<>> /\ ops < MaxOps
         /\ \E r \in ForgedResponses(Top(stack).agent)
                       \cup { TextResponse(t) : t \in ModelTexts } : GatewayRespond(r)
    \/ \E o \in {"success", "error", "raise"} : ExecuteLocal(o)
    \/ Len(stack) < MaxDepth /\ Delegate

SpecForged == Init /\ [][NextForged]_vars

----------------------------------------------------------------------------
(* The Gateway configuration built for agents whose stored thinking budget *)
(* is negative (dynamic thinking), zero or positive, with and without      *)
(* registered functions.                                                    *)

ThinkingBudgets == {-1, 0, 1}

ConfigRows ==
    { [a \in AgentNames |->
          IF a \in RegAgents
          THEN [defaults(a) EXCEPT !.thinking_budget = tb[a]]
          ELSE NoRow] : tb \in [RegAgents -> ThinkingBudgets] }

InitConfig ==
    /\ InitRest
    /\ agentRows \in ConfigRows

\* build_config(agent)
BuildConfig(agent) ==
    /\ stack = <<>>
    /\ agentRows[agent].present
    /\ returned' = [op |-> "build_config", agent |-> agent,
                    value |-> build_config(registry, agentRows, agent)]
    /\ UNCHANGED <<hist, stack, sent, last, gwCalls, ops, sessions, registry, tied,
                   threadVars, dbVars>>

NextConfig ==
    \/ \E a \in RegAgents, n \in RegNames, v \in RegVersions :
           RegisterAgentFunction(a, n, v[1], v[2])
    \/ \E a \in RegAgents : ClearAgentFunctions(a)
    \/ \E a \in RegAgents : BuildTools(a)
    \/ \E a \in RegAgents : BuildConfig(a)

SpecConfig == InitConfig /\ [][NextConfig]_vars

----------------------------------------------------------------------------
(* The get_or_create_<agent>_agent functions called on a table whose rows  *)
(* are absent, canonical, or differ from the canonical values in one field *)
(* (a row written by an earlier version of the code or edited by hand).    *)

StoredKinds == {"absent", "canonical", "gemini_model", "thinking_budget",
                "system_instruction"}

StoredRow(agent, kind) ==
    CASE kind = "absent" -> NoRow
      [] kind = "canonical" -> defaults(agent)
      [] kind = "gemini_model" ->
            [defaults(agent) EXCEPT !.gemini_model = "gemini-1.5-flash"]
      [] kind = "thinking_budget" ->
            [defaults(agent) EXCEPT !.thinking_budget = 2]
      [] kind = "system_instruction" ->
            [defaults(agent) EXCEPT !.system_instruction = "edited instruction"]

InitAgents ==
    /\ InitRest
    /\ agentRows \in { [a \in AgentNames |-> StoredRow(a, kind[a])] :
                          kind \in [AgentNames -> StoredKinds] }

\* get_or_create_<agent>_agent(): the row and the registrations; what it
\* returned remembers whether the row was created or saved.
GetOrCreateAgent(agent) ==
    /\ stack = <<>>
    /\ LET d == get_or_create_definition(agentRows, agent)
       IN  /\ agentRows' = d.rows
           /\ returned' = [op |-> "get_or_create_agent", agent |-> agent,
                           value |-> d.rows[agent],
                           created |-> d.created, saved |-> d.saved]
    /\ registry' = get_or_create_agent(registry, agent)
    /\ ops' = ops + 1
    /\ UNCHANGED <<hist, stack, sent, last, gwCalls, sessions, tied, threadVars, budgets>>

NextAgents == ops < MaxOps /\ \E a \in AgentNames : GetOrCreateAgent(a)

SpecAgents == InitAgents /\ [][NextAgents]_vars

----------------------------------------------------------------------------
(* One session of the coordinator with the budget agent: the Gateway       *)
(* answers the coordinator with the final text or with one or two tool     *)
(* calls (call_budget_agent, or a message to an agent that is not built),  *)
(* and answers the budget agent with its JSON text.                        *)

BudgetCall == Call("call_budget_agent", "")

CoordinatorAnswers(agent) ==
    CASE agent = COORDINATOR ->
            { TextResponse(t) : t \in ModelTexts }
                \cup { CallsResponse(cs) :
                         cs \in { <<BudgetCall>>, <<PlainCall(COORDINATOR)>>,
                                  <<BudgetCall, BudgetCall>>,
                                  <<BudgetCall, PlainCall(COORDINATOR)>> } }
      [] OTHER -> { TextResponse(t) : t \in ModelTexts }

NextCoordinator ==
    \/ sessions = 0 /\ \E u \in Users : StartSession(COORDINATOR, u, PlainMessage)
    \/ stack # <<>> /\ ops < MaxAnswers
         /\ \E r \in CoordinatorAnswers(Top(stack).agent) : GatewayRespond(r)
    \/ ExecuteLocal("error")
    \/ Delegate

SpecCoordinator == Init /\ [][NextCoordinator]_vars

----------------------------------------------------------------------------
(* Re-entrance.  One session of the chatbot that delegates to the          *)
(* coordinator, which sends a message back to the chatbot for the same     *)
(* user while the first chatbot session waits for its tool.                *)

NextReenter ==
    \/ sessions = 0 /\ StartSession(CHATBOT, "u1", PlainMessage)
    \/ stack # <<>> /\ ops < MaxAnswers
         /\ \E r \in DelegResponses(Top(stack).agent) : GatewayRespond(r)
    \/ ExecuteLocal("error")
    \/ Len(stack) < MaxNesting /\ Delegate

SpecReenter == Init /\ [][NextReenter]_vars

----------------------------------------------------------------------------
(* call_advisor, advisor/tools.py: the routing of a message by the phrases *)
(* it contains.  Messages are sequences of characters.                      *)

UpperCase == <<"A", "B", "C", "D", "E", "F", "G", "H", "I", "J", "K", "L", "M", "N", "O", "P", "Q", "R", "S", "T", "U", "V", "W", "X", "Y", "Z">>
LowerCase == <<"a", "b", "c", "d", "e", "f", "g", "h", "i", "j", "k", "l", "m", "n", "o", "p", "q", "r", "s", "t", "u", "v", "w", "x", "y", "z">>

\* str.lower()
lower(text) ==
    [i \in DOMAIN text |->
        IF \E k \in DOMAIN UpperCase : UpperCase[k] = text[i]
        THEN LowerCase[CHOOSE k \in DOMAIN UpperCase : UpperCase[k] = text[i]]
        ELSE text[i]]

\* word in message_lower: the substring test of Python's `in` on strings
contains(word, text) ==
    \E i \in 1..(Len(text) - Len(word) + 1) : SubSeq(text, i, i + Len(word) - 1) = word

ComparisonWords ==
    { <<"c", "o", "m", "p", "a", "r", "e">>,
      <<"v", "e", "r", "s", "u", "s">>,
      <<"v", "s">>,
      <<"o", "r">>,
      <<"b", "e", "t", "w", "e", "e", "n">> }

PurchasePhrases ==
    { <<"s", "h", "o", "u", "l", "d", " ", "i", " ", "b", "u", "y">>,
      <<"c", "a", "n", " ", "i", " ", "a", "f", "f", "o", "r", "d">>,
      <<"i", "s", " ", "i", "t", " ", "w", "o", "r", "t", "h">>,
      <<"g", "o", "o", "d", " ", "i", "d", "e", "a">> }

\* the service call_advisor hands the message to
call_advisor(message) ==
    LET message_lower == lower(message)
    IN  IF \E word \in ComparisonWords : contains(word, message_lower)
        THEN "process_product_comparison"
        ELSE IF \E word \in PurchasePhrases : contains(word, message_lower)
        THEN "process_purchase_analysis"
        ELSE "process_product_recommendation"

\* 'Can I afford a new TV?', an example of call_advisor_declaration
CanIAffordANewTV == <<"C", "a", "n", " ", "I", " ", "a", "f", "f", "o", "r", "d", " ", "a", " ", "n", "e", "w", " ", "T", "V", "?">>

\* The messages of the model: one to three of these pieces, joined by a space.
Pieces ==
    { <<"C", "a", "n", " ", "I", " ", "a", "f", "f", "o", "r", "d">>,
      <<"S", "h", "o", "u", "l", "d", " ", "I", " ", "b", "u", "y">>,
      <<"a", " ", "n", "e", "w", " ", "T", "V", "?">>,
      <<"t", "h", "i", "s", " ", "l", "a", "p", "t", "o", "p">>,
      <<"C", "o", "m", "p", "a", "r", "e">>,
      <<"i", "P", "h", "o", "n", "e", " ", "v", "s", " ", "S", "a", "m", "s", "u", "n", "g">>,
      <<"a", " ", "f", "o", "r", "d", " ", "o", "r", " ", "a", " ", "f", "i", "a", "t">>,
      <<"i", "s", " ", "i", "t", " ", "w", "o", "r", "t", "h", " ", "i", "t">> }

Joined(ps) ==
    CASE Len(ps) = 1 -> ps[1]
      [] Len(ps) = 2 -> ps[1] \o <<" ">> \o ps[2]
      [] Len(ps) = 3 -> ps[1] \o <<" ">> \o ps[2] \o <<" ">> \o ps[3]

AdvisorMessages ==
    { Joined(ps) : ps \in UNION { [1..n -> Pieces] : n \in 1..3 } }

\* call_advisor(user, message)
CallAdvisor(message) ==
    /\ stack = <<>>
    /\ returned' = [op |-> "call_advisor", message |-> message,
                    value |-> call_advisor(message)]
    /\ UNCHANGED <<hist, stack, sent, last, gwCalls, ops, sessions, registry, tied,
                   threadVars, dbVars>>

NextAdvisor == \E message \in AdvisorMessages : CallAdvisor(message)

SpecAdvisor == Init /\ [][NextAdvisor]_vars

----------------------------------------------------------------------------
(* The budget agent called directly (process_budget_generation), with      *)
(* answers that hold lists of operations on the user's budgets.            *)

NextBudget ==
    \/ ops < MaxOps /\ \E u \in Users : StartSession(BUDGET, u, NoMessage)
    \/ stack # <<>>
         /\ \E r \in BudgetResponses(Top(stack).agent) \cup {GatewayFailure} :
                GatewayRespond(r)

SpecBudget == Init /\ [][NextBudget]_vars

----------------------------------------------------------------------------
(* Properties *)

IsLoopAgent(a) == a \in {CHATBOT, COORDINATOR}

Requests(turns) == SelectSeq(turns, LAMBDA t : t.kind = "function_call")
Results(turns) == SelectSeq(turns, LAMBDA t : t.kind = "function_response")

OneCall == [kind |-> "calls", n |-> 1]
PlainText == [kind |-> "text", n |-> 0]

\* C1: a loop session whose Gateway answered each of 5 consecutive rounds
\* with one tool call made exactly 5 Gateway calls and returned the error
\* dict of the iteration cap, and exactly 5 tool-request turns were
\* persisted for it; no running session is past its 5th round.
C1_CapAfterFiveRounds ==
    /\ \A i \in DOMAIN stack : stack[i].iteration <= max_iterations
    /\ ( /\ IsLoopAgent(last.agent)
         /\ last.shape = [i \in 1..max_iterations |-> OneCall] )
       => /\ last.how = "exceeded"
          /\ last.type = "error"
          /\ last.iteration = max_iterations
          /\ Len(Requests(last.added)) = max_iterations

\* C2: the Gateway calls of a top-level session and all its nested
\* delegations number at most the product of the two loop caps.
C2_CallsBoundedByProduct ==
    gwCalls <= max_iterations * max_iterations

\* Every tool-call-request turn is immediately followed by one
\* tool-call-result turn of the same name.
Paired(turns) ==
    \A i \in DOMAIN turns :
        turns[i].kind = "function_call"
            => /\ i < Len(turns)
               /\ turns[i + 1].kind = "function_response"
               /\ turns[i + 1].name = turns[i].name

\* C3: when a loop session is about to call the Gateway, every tool-call
\* request in the history it passes and in the persisted history of its
\* pair is immediately followed by the result turn of the same tool.
C3_RequestThenResult ==
    \A i \in DOMAIN stack :
        (i = Len(stack) /\ stack[i].pc = "gateway" /\ IsLoopAgent(stack[i].agent))
            => /\ Paired(stack[i].mem)
               /\ Paired(hist[<<stack[i].agent, stack[i].user>>])

\* C4: a tool implementation that raises under execute_function in the
\* coordinator's loop never ends the session: the fault does not leave the
\* loop as an exception.
C4_ToolFaultIsWrapped ==
    ~(last.type = "exception" /\ last.how = "tool" /\ last.origin = COORDINATOR)

\* C5: a session in which a Gateway call failed ends with a typed error
\* result, never with an exception.
C5_GatewayFailureIsTyped ==
    last.how = "gateway" => last.type = "error"

\* C6 as stated: a loop session whose first Gateway response holds no tool
\* call made exactly one Gateway call, returned a non-error result carrying
\* the text of the response and appended exactly the user-message turn and
\* one model text turn.
FirstResponseWithoutCall(rec) ==
    /\ IsLoopAgent(rec.agent)
    /\ rec.shape # <<>>
    /\ rec.shape[1].kind \in {"text", "noparts", "nocand"}

DoneAfterOneCall(rec, text) ==
    /\ rec.how = "done"
    /\ rec.message = text
    /\ rec.type \in {"success", "response"}
    /\ rec.iteration = 1
    /\ Len(rec.added) = 2
    /\ rec.added[1].kind = "text" /\ rec.added[1].role = "user"
    /\ rec.added[2].kind = "text" /\ rec.added[2].role = "model"
    /\ rec.added[2].text = text

KindsOf(turns) == [i \in DOMAIN turns |-> <<turns[i].role, turns[i].kind>>]

\* C7: a loop session with one tool call in round 1 and plain text in round
\* 2 ended DONE after exactly 2 Gateway calls, and its pair gained exactly
\* 4 turns: user message, tool request, tool result, final text.
C7_FourTurns ==
    (IsLoopAgent(last.agent) /\ last.shape = <<OneCall, PlainText>>)
        => /\ last.how = "done"
           /\ last.iteration = 2
           /\ KindsOf(last.added) =
                  << <<"user", "text">>, <<"model", "function_call">>,
                     <<"user", "function_response">>, <<"model", "text">> >>

\* The names of the tool calls of a sequence of calls or of turns.
NamesOf(xs) == [i \in DOMAIN xs |-> xs[i].name]

\* C8: when a loop session is about to call the Gateway again, the result
\* turns persisted since the previous response are those of its tool calls,
\* one each and in emitted order, and each call has its request turn.
C8_EveryCallDispatched ==
    \A i \in DOMAIN stack :
        ( /\ i = Len(stack)
          /\ stack[i].pc = "gateway"
          /\ IsLoopAgent(stack[i].agent)
          /\ stack[i].emitted # <<>> )
            => LET p == <<stack[i].agent, stack[i].user>>
                   since == SubSeq(hist[p], stack[i].mark + 1, Len(hist[p]))
               IN  /\ NamesOf(Results(since)) = NamesOf(stack[i].emitted)
                   /\ \A k \in DOMAIN stack[i].emitted :
                          \E j \in DOMAIN since :
                              /\ since[j].kind = "function_call"
                              /\ since[j].name = stack[i].emitted[k].name

\* C9: the history passed in every Gateway call ends with a user turn, and
\* an onboarding turn about to call the Gateway has persisted and appended
\* the synthetic user turn when the stored history, with the new message if
\* there is one, was empty or ended with a model turn.
LastIsUser(turns) == turns # <<>> /\ turns[Len(turns)].role = "user"

OnboardingStarted(f) ==
    LET p == <<f.agent, f.user>>
        before == SubSeq(hist[p], 1, f.base)
        given == IF f.message # <<>>
                 THEN Append(before, TextTurn("user", f.message))
                 ELSE before
    IN  /\ f.mem = hist[p]
        /\ (given = <<>> \/ given[Len(given)].role = "model")
               => hist[p] = Append(given, TextTurn("user", StartText))

C9_LastTurnIsUser ==
    /\ sent # NoRequest => LastIsUser(sent.contents)
    /\ \A i \in DOMAIN stack :
           (stack[i].agent = ONBOARDING /\ stack[i].pc = "gateway")
               => OnboardingStarted(stack[i])

\* an onboarding turn without a message, after an earlier turn of the pair:
\* the synthetic turn was added after a model turn and passed to the Gateway
C9_Witness ==
    /\ sent.agent = ONBOARDING
    /\ Len(sent.contents) >= 3
    /\ sent.contents[Len(sent.contents)] = TextTurn("user", StartText)
    /\ sent.contents[Len(sent.contents) - 1].role = "model"

IsPrefix(s, t) == Len(s) <= Len(t) /\ SubSeq(t, 1, Len(s)) = s

\* C10: in every step, the history of every pair either is emptied (the
\* explicit clear) or keeps all its turns, unchanged and in order, as a
\* prefix of the new history.
C10_AppendOnly ==
    [][\A p \in Pairs : hist'[p] = <<>> \/ IsPrefix(hist[p], hist'[p])]_vars

\* C11: get_agent_history returns exactly the rows added for the pair, in
\* the order in which they were added, also when rows carry equal timestamps.
C11_ReadInAppendOrder ==
    returned.op = "get_agent_history" => returned.value = returned.stored

\* C12: send_message_to_agent called with an agent_name outside agent_map
\* never leaves the coordinator's loop as an exception: the loop receives an
\* error result as a value.
C12_UnrecognizedAgentIsAValue ==
    ~( /\ last.type = "exception"
       /\ last.how = "tool"
       /\ last.failed.name = "send_message_to_agent"
       /\ last.failed.agent_name \notin (DOMAIN AgentMapSessions) \cup AgentMapStubs )

\* The functions an agent has in the registry, and the implementation
\* registered for an agent under a name.
FunctionsOf(reg, agent) == IF agent \in DOMAIN reg THEN reg[agent] ELSE <<>>

Registered(reg, agent, func_name) ==
    \E i \in DOMAIN FunctionsOf(reg, agent) : FunctionsOf(reg, agent)[i].name = func_name

ImplementationOf(reg, agent, func_name) ==
    LET fs == FunctionsOf(reg, agent)
    IN  fs[CHOOSE i \in DOMAIN fs : fs[i].name = func_name].function

\* C13: in every step in which execute_function is called for an agent with
\* a name not registered for that agent, the call raises the error naming
\* the function and the agent, invokes no implementation, and the registry
\* and every history stay as they were.
C13_UnregisteredNameRaises ==
    [][\A a \in RegAgents, n \in RegNames :
          (ExecuteFunction(a, n) /\ ~Registered(registry, a, n))
              => /\ returned'.result.raised
                 /\ returned'.result.error = <<n, a>>
                 /\ returned'.result.invoked = ""
                 /\ registry' = registry
                 /\ hist' = hist]_vars

\* a dispatch that raised for a name another agent has registered
C13_Witness ==
    /\ returned.op = "execute_function"
    /\ returned.result.raised
    /\ ~Registered(registry, returned.agent, returned.name)
    /\ \E b \in DOMAIN registry : Registered(registry, b, returned.name)

\* C14: in every step in which register_agent_function is called for an
\* (agent, name) that has an entry, with whatever declaration and
\* implementation, the registry and the agent's manifest stay as they were.
C14_RegisterNeverOverwrites ==
    [][\A a \in RegAgents, n \in RegNames, v \in RegVersions :
          (RegisterAgentFunction(a, n, v[1], v[2]) /\ Registered(registry, a, n))
              => /\ registry' = registry
                 /\ build_tools(registry', a) = build_tools(registry, a)]_vars

\* a registration with another implementation that left the first in place
C14_Witness ==
    /\ returned.op = "register_agent_function"
    /\ returned.had
    /\ Registered(registry, returned.agent, returned.name)
    /\ ImplementationOf(registry, returned.agent, returned.name) # returned.function

\* C15: a registration for an agent leaves the functions of every other
\* agent as they were, and execute_function for an agent with a name it has
\* registered invokes the implementation registered for that agent.
C15_ScopedPerAgent ==
    [][/\ \A a \in RegAgents, n \in RegNames, v \in RegVersions :
             RegisterAgentFunction(a, n, v[1], v[2])
                 => /\ DOMAIN registry' = DOMAIN registry \cup {a}
                    /\ \A b \in DOMAIN registry \ {a} : registry'[b] = registry[b]
       /\ \A a \in RegAgents, n \in RegNames :
             (ExecuteFunction(a, n) /\ Registered(registry, a, n))
                 => /\ ~returned'.result.raised
                    /\ returned'.result.invoked = ImplementationOf(registry, a, n)]_vars

\* a dispatch for an agent while another agent has the same name registered
\* with another implementation
C15_Witness ==
    /\ returned.op = "execute_function"
    /\ ~returned.result.raised
    /\ Registered(registry, returned.agent, returned.name)
    /\ \E b \in DOMAIN registry :
           /\ b # returned.agent
           /\ Registered(registry, b, returned.name)
           /\ ImplementationOf(registry, b, returned.name) # returned.result.invoked

\* C16: in every step, either every agent of the registry keeps its entries,
\* unchanged and in order, as a prefix of its entries afterwards, or the
\* step is clear_agent_functions(agent) and removes exactly the entries of
\* that agent.
C16_RegistryOnlyGrows ==
    [][\/ \A a \in DOMAIN registry :
             a \in DOMAIN registry' /\ IsPrefix(registry[a], registry'[a])
       \/ \E a \in RegAgents :
             /\ ClearAgentFunctions(a)
             /\ DOMAIN registry' = DOMAIN registry \ {a}
             /\ \A b \in DOMAIN registry' : registry'[b] = registry[b]]_vars

\* a clear of one agent that left the entries another agent registered in
\* its loop run
C16_Witness ==
    /\ returned.op = "clear_agent_functions"
    /\ returned.agent \notin DOMAIN registry
    /\ \E b \in DOMAIN registry : Len(registry[b]) >= 2
    /\ last.type # "none"

\* C17: with two threads inside register_agent_function for the same
\* agent, no registration is lost: the name a thread has finished
\* registering is registered for the agent.
C17_NoRegistrationLost ==
    \A t \in Threads :
        registering[t].pc = "done"
            => Registered(registry, registering[t].agent, registering[t].name)

\* C18: with two concurrent sessions of the coordinator for one user, no
\* turn of one session is placed between a tool-request turn of the other
\* and its tool-result turn: in the persisted history of the pair a
\* tool-request turn is the last turn or is followed by a tool-result turn.
C18_NothingBetweenRequestAndResult ==
    LET turns == hist[<<COORDINATOR, WorkerUser>>]
    IN  \A i \in DOMAIN turns :
            (turns[i].kind = "function_call" /\ i < Len(turns))
                => turns[i + 1].kind = "function_response"

\* C19: every result a delegate-able entry point (coordinator, chatbot,
\* budget generation) returns has the type "success" or "error".
C19_SuccessOrError ==
    (last.agent \in {COORDINATOR, CHATBOT, BUDGET} /\ last.type \notin {"none", "exception"})
        => last.type \in {"success", "error"}

\* C20: every session nested in a session of user u runs for u, and every
\* tool of a running session was called with the identity of u, whatever
\* 'user' argument the model supplied.
C20_SameUserThroughout ==
    \A i \in DOMAIN stack :
        /\ stack[i].user = stack[1].user
        /\ stack[i].tool_user \in {"", stack[1].user}

\* a delegation of the coordinator whose arguments named another user
C20_Witness ==
    /\ Len(stack) >= 2
    /\ stack[1].agent = COORDINATOR
    /\ stack[1].emitted # <<>>
    /\ stack[1].emitted[1].user \notin {"", stack[1].user}
    /\ stack[2].user = stack[1].user

\* C21: in every step of a session (from the entry of the top-level
\* session to its end), the histories that change and the history passed
\* to the Gateway are those of pairs of the session's user, and while no
\* delegated session is running only the history of the session's own pair
\* changes.
C21_SessionsAreIndependent ==
    [][(stack # <<>> \/ stack' # <<>>)
          => LET root == IF stack # <<>> THEN stack[1] ELSE stack'[1]
             IN  /\ \A p \in Pairs :
                        hist'[p] # hist[p]
                            => /\ p[2] = root.user
                               /\ (Len(stack) <= 1 /\ Len(stack') <= 1)
                                      => p = <<root.agent, root.user>>
                 /\ sent' # sent => sent'.user = root.user]_vars

\* a delegation inside a session of one user while the other user has
\* histories of the same agents
C21_Witness ==
    /\ Len(stack) = 2
    /\ stack[1].user = "u2"
    /\ hist[<<stack[2].agent, "u2">>] # <<>>
    /\ \E a \in Agents : hist[<<a, "u1">>] # <<>>

\* C22: build_tools returns None exactly when the agent has no registered
\* function and otherwise a Tool holding the declaration of every registered
\* function and nothing else; build_config holds a thinking configuration
\* exactly when the stored thinking budget is positive, and holds the Tool
\* together with the AUTO function-calling mode exactly when build_tools
\* returned a Tool.
C22_ManifestAndConfig ==
    [][/\ \A a \in RegAgents :
            BuildTools(a)
                => LET fs == get_agent_functions(registry, a)
                       v == returned'.value
                   IN  /\ ~v.tool <=> Len(fs) = 0
                       /\ v.tool =>
                            /\ Len(v.function_declarations) = Len(fs)
                            /\ \A i \in DOMAIN fs :
                                   v.function_declarations[i] = fs[i].declaration
       /\ \A a \in RegAgents :
            BuildConfig(a)
                => LET fs == get_agent_functions(registry, a)
                       v == returned'.value
                   IN  /\ v.thinking_config # <<>> <=> agentRows[a].thinking_budget > 0
                       /\ v.thinking_config # <<>>
                            => v.thinking_config = <<agentRows[a].thinking_budget>>
                       /\ v.tools # <<>> <=> Len(fs) > 0
                       /\ v.tool_config # <<>> <=> Len(fs) > 0
                       /\ Len(fs) > 0
                            => /\ v.tool_config = <<"AUTO">>
                               /\ v.tools = <<build_tools(registry, a)>>]_vars

\* a configuration with thinking and with a Tool of two declarations, built
\* for one agent while the other agent's thinking budget is not positive
C22_Witness ==
    /\ returned.op = "build_config"
    /\ returned.value.thinking_config # <<>>
    /\ returned.value.tools # <<>>
    /\ Len(returned.value.tools[1].function_declarations) = 2
    /\ \E a \in RegAgents : agentRows[a].thinking_budget <= 0

\* C24: a call of get_or_create_<agent>_agent creates the row only when
\* there was none, leaves the stored model id, thinking budget and system
\* instruction equal to the canonical values, and a call that directly
\* follows a call for the same agent writes nothing to the row and adds
\* nothing to the registry.
C24_GetOrCreateIsIdempotent ==
    [][\A a \in AgentNames :
          GetOrCreateAgent(a)
              => /\ returned'.created => ~agentRows[a].present
                 /\ agentRows'[a] = defaults(a)
                 /\ (returned.op = "get_or_create_agent" /\ returned.agent = a)
                        => /\ agentRows' = agentRows
                           /\ ~returned'.created /\ ~returned'.saved
                           /\ registry' = registry]_vars

\* the number of tool calls the Gateway emitted in the rounds of a session
RECURSIVE Emitted(_)
Emitted(shape) == IF shape = <<>> THEN 0 ELSE Head(shape).n + Emitted(Tail(shape))

UserTurns(turns) == SelectSeq(turns, LAMBDA t : t.role = "user" /\ t.kind = "text")

C25_QuestionCompletedOrError ==
    (last.agent = ONBOARDING /\ last.type # "exception")
        => /\ last.type \in {"question", "completed", "error"}
           /\ last.how = "nocall" => last.type = "error"

\* C26: when a session of the coordinator or of the chatbot is about to
\* call the Gateway, its local history equals the stored history of its
\* pair, turn for turn.
C26_MemoryEqualsStore ==
    \A i \in DOMAIN stack :
        (i = Len(stack) /\ stack[i].pc = "gateway" /\ IsLoopAgent(stack[i].agent))
            => stack[i].mem = hist[<<stack[i].agent, stack[i].user>>]

\* C27: in the history passed to the Gateway by the coordinator's and the
\* chatbot's loop the roles alternate strictly, beginning with user.
C27_RolesAlternate ==
    IsLoopAgent(sent.agent)
        => \A i \in DOMAIN sent.contents :
              sent.contents[i].role = (IF i % 2 = 1 THEN "user" ELSE "model")

EmptyKinds == {"nocand", "noparts"}

\* the latest finished session is a chatbot session that returned a dict
\* after a Gateway response with no candidates or no parts
EndedOnEmpty ==
    /\ last.agent = CHATBOT
    /\ last.type # "exception"
    /\ last.shape # <<>>
    /\ last.shape[Len(last.shape)].kind \in EmptyKinds

\* C28 as stated: such a session returned the error dict and its pair's
\* history ends with the user message of the session.
C28_EndsWithUserMessage ==
    EndedOnEmpty
        => /\ last.type = "error"
           /\ Len(last.added) = 1
           /\ last.added[1].role = "user" /\ last.added[1].kind = "text"

\* C28: a chatbot session whose Gateway answered with no candidates or no
\* parts made no Gateway call after that answer, returned the error dict
\* and appended no model text turn; the turns it appended end with a turn
\* of role user, which is its user message when the empty answer was its
\* first answer and the result of its last tool call otherwise.
C28_EmptyResponseStops ==
    EndedOnEmpty
        => LET n == Len(last.added)
           IN  /\ last.type = "error" /\ last.how = "empty"
               /\ last.iteration = Len(last.shape)
               /\ \A i \in 1..(Len(last.shape) - 1) : last.shape[i].kind = "calls"
               /\ n >= 1
               /\ last.added[1].role = "user" /\ last.added[1].kind = "text"
               /\ \A i \in 2..n : last.added[i].kind # "text"
               /\ last.added[n].role = "user"
               /\ Len(last.shape) = 1 => n = 1
               /\ Len(last.shape) > 1 => last.added[n].kind = "function_response"

\* the empty answer came after a tool round
C28_Witness ==
    /\ EndedOnEmpty
    /\ Len(last.shape) = 2
    /\ last.shape[2].kind = "noparts"
    /\ last.added[Len(last.added)].kind = "function_response"

\* a letter of a lower-case text
IsLetter(c) == \E k \in DOMAIN LowerCase : LowerCase[k] = c

\* the text holds the word with no letter directly before or after it
HasWord(word, text) ==
    \E i \in 1..(Len(text) - Len(word) + 1) :
        /\ SubSeq(text, i, i + Len(word) - 1) = word
        /\ i = 1 \/ ~IsLetter(text[i - 1])
        /\ i + Len(word) - 1 = Len(text) \/ ~IsLetter(text[i + Len(word)])

\* C29: a message that holds a purchase-analysis phrase and none of the
\* comparison words as a separate word goes to process_purchase_analysis,
\* and so does 'Can I afford a new TV?'.
C29_PurchasePhraseRoutesToAnalysis ==
    returned.op = "call_advisor"
        => LET message_lower == lower(returned.message)
           IN  /\ ( /\ \E phrase \in PurchasePhrases : contains(phrase, message_lower)
                    /\ \A word \in ComparisonWords : ~HasWord(word, message_lower) )
                      => returned.value = "process_purchase_analysis"
               /\ returned.message = CanIAffordANewTV
                      => returned.value = "process_purchase_analysis"

\* C30: a call of _execute_agent_task whose Gateway call returned an answer
\* returns a dict of type "success", whatever operations the answer holds
\* and whatever budgets the user has.
C30_OperationsNeverAbort ==
    (last.agent = BUDGET /\ last.how # "gateway") => last.type = "success"

====
